---- MODULE Spec2Model ----
(***************************************************************************)
(* Model of the TipTap block designer: the JSON <-> XML converter          *)
(* (src/src/utils/converters.ts) and the two-panel synchronisation of      *)
(* src/src/App.tsx.                                                        *)
(*                                                                         *)
(* A JavaScript string is a sequence of one-character strings, so that     *)
(* escaping, serialisation and parsing are computed character by           *)
(* character.  A JSON value is a one-field record whose field names its    *)
(* JavaScript type: [str |-> chars], [num |-> n], [bool |-> b],            *)
(* [null |-> TRUE], [arr |-> <<values>>], [obj |-> << <<key, value>> >>]   *)
(* (an object keeps its keys in insertion order, as Object.entries does).  *)
(* A node is a record with the keys it carries among type, attrs,          *)
(* content, text and marks: an absent key is an absent field.              *)
(***************************************************************************)
EXTENDS Integers, Sequences, FiniteSets, TLC

VARIABLES
    doc,        \* converter bench: the Document handed to jsonToXml
    xml,        \* converter bench: the XML text under consideration
    xmlBase,    \* converter bench: the XML text before whitespace / <doc> editing
    edit,       \* converter bench: what was done to xmlBase to obtain xml
    parsed,     \* converter bench: outcome of xmlToJson(xml)
    parsedBase, \* converter bench: outcome of xmlToJson(xmlBase)
    phase,      \* converter bench: "doc" | "xml" | "parsed" | "validated" | "converted"
    checked,    \* converter bench: the last validator call, its input and outcome
    jsonValue,        \* App: the JSON panel's text (useState, line 21)
    xmlValue,         \* App: the XML panel's text (useState, line 22)
    conversionError,  \* App: useState, line 25
    activeEditor,     \* App: activeEditorRef.current, line 28
    isSyncing,        \* App: isSyncingRef.current, line 31
    jsonTimer,        \* App: the pending call of debouncedSyncJsonToXml, line 90
    xmlTimer,         \* App: the pending call of debouncedSyncXmlToJson, line 91
    resetTimers,      \* App: pending setTimeout(..., 0) callbacks of lines 54-57 and 82-85
    step,             \* App: the handler that produced this state, and its outcome
    lastEdit,         \* App: the panel the user edited last, and the text they left
    jsonEditor,       \* JsonEditor: the text in the editor, editorRef.current.getValue()
    xmlEditor,        \* XmlEditor: the text in the editor, editorRef.current.getValue()
    armedBy           \* history: what changed the text whose listener armed each timer

benchVars == <<doc, xml, xmlBase, edit, parsed, parsedBase, phase, checked>>
appVars == <<jsonValue, xmlValue, conversionError, activeEditor, isSyncing,
             jsonTimer, xmlTimer, resetTimers, step, lastEdit,
             jsonEditor, xmlEditor, armedBy>>
vars == <<benchVars, appVars>>

-----------------------------------------------------------------------------
(* JavaScript values and strings *)

JStr(s) == [str |-> s]
JNum(n) == [num |-> n]
JBool(b) == [bool |-> b]
JNull == [null |-> TRUE]
JArr(items) == [arr |-> items]
JObj(pairs) == [obj |-> pairs]

IsStr(v) == DOMAIN v = {"str"}
IsNum(v) == DOMAIN v = {"num"}
IsBool(v) == DOMAIN v = {"bool"}
IsNull(v) == DOMAIN v = {"null"}
IsArr(v) == DOMAIN v = {"arr"}
IsObj(v) == DOMAIN v = {"obj"}

Has(r, key) == key \in DOMAIN r

WhitespaceChars == {" ", "\n", "\t"}
DigitChars == {"0", "1", "2", "3", "4", "5", "6", "7", "8", "9"}

StartsWith(s, p) == Len(s) >= Len(p) /\ SubSeq(s, 1, Len(p)) = p
EndsWith(s, p) == Len(s) >= Len(p) /\ SubSeq(s, Len(s) - Len(p) + 1, Len(s)) = p
Drop(s, n) == SubSeq(s, n + 1, Len(s))

\* String.prototype.replace(/pat/g, rep): leftmost, non-overlapping, one pass
RECURSIVE ReplaceAll(_, _, _)
ReplaceAll(s, pat, rep) ==
    IF s = <<>> THEN <<>>
    ELSE IF StartsWith(s, pat) THEN rep \o ReplaceAll(Drop(s, Len(pat)), pat, rep)
    ELSE <<Head(s)>> \o ReplaceAll(Tail(s), pat, rep)

RECURSIVE TrimStart(_)
TrimStart(s) ==
    IF s # <<>> /\ Head(s) \in WhitespaceChars THEN TrimStart(Tail(s)) ELSE s

RECURSIVE TrimEnd(_)
TrimEnd(s) ==
    IF s # <<>> /\ s[Len(s)] \in WhitespaceChars
    THEN TrimEnd(SubSeq(s, 1, Len(s) - 1)) ELSE s

\* String.prototype.trim
Trim(s) == TrimEnd(TrimStart(s))

RECURSIVE Flatten(_)
Flatten(ss) == IF ss = <<>> THEN <<>> ELSE Head(ss) \o Flatten(Tail(ss))

\* Array.prototype.join
RECURSIVE Join(_, _)
Join(ss, sep) ==
    IF ss = <<>> THEN <<>>
    ELSE IF Len(ss) = 1 THEN ss[1]
    ELSE ss[1] \o sep \o Join(Tail(ss), sep)

DigitOf(d) == CASE d = 0 -> "0" [] d = 1 -> "1" [] d = 2 -> "2" [] d = 3 -> "3"
                [] d = 4 -> "4" [] d = 5 -> "5" [] d = 6 -> "6" [] d = 7 -> "7"
                [] d = 8 -> "8" [] d = 9 -> "9"
ValueOfDigit(c) == CHOOSE d \in 0..9 : DigitOf(d) = c

\* String(n) for a natural number n
RECURSIVE NumToChars(_)
NumToChars(n) ==
    IF n < 10 THEN <<DigitOf(n)>> ELSE NumToChars(n \div 10) \o <<DigitOf(n % 10)>>

\* Number(s) for a non-empty string of decimal digits
RECURSIVE CharsToNum(_)
CharsToNum(s) ==
    IF s = <<>> THEN 0
    ELSE 10 * CharsToNum(SubSeq(s, 1, Len(s) - 1)) + ValueOfDigit(s[Len(s)])

IsDigits(s) == s # <<>> /\ \A i \in 1..Len(s) : s[i] \in DigitChars

S_true == <<"t", "r", "u", "e">>
S_false == <<"f", "a", "l", "s", "e">>
S_null == <<"n", "u", "l", "l">>
S_text == <<"t", "e", "x", "t">>
S_doc == <<"d", "o", "c">>

-----------------------------------------------------------------------------
(* Text codec: converters.ts lines 7-59 *)

isWhitespaceOnly_emptyOnly(text) == text = <<>>

isWhitespaceOnly(text) == \A i \in 1..Len(text) : text[i] \in WhitespaceChars

E_amp == <<"&", "a", "m", "p", ";">>
E_lt == <<"&", "l", "t", ";">>
E_gt == <<"&", "g", "t", ";">>
E_quot == <<"&", "q", "u", "o", "t", ";">>
E_apos == <<"&", "a", "p", "o", "s", ";">>

escapeXml_ampersandLast(text) ==
    ReplaceAll(ReplaceAll(ReplaceAll(ReplaceAll(ReplaceAll(text,
        <<"<">>, E_lt), <<">">>, E_gt), <<"\"">>, E_quot), <<"'">>, E_apos), <<"&">>, E_amp)

escapeXml(text) ==
    ReplaceAll(ReplaceAll(ReplaceAll(ReplaceAll(ReplaceAll(text,
        <<"&">>, E_amp), <<"<">>, E_lt), <<">">>, E_gt), <<"\"">>, E_quot), <<"'">>, E_apos)

escapeXmlAttr_keepsApostrophe(text) ==
    ReplaceAll(ReplaceAll(ReplaceAll(text, <<"&">>, E_amp), <<"<">>, E_lt), <<">">>, E_gt)

escapeXmlAttr(text) ==
    ReplaceAll(ReplaceAll(ReplaceAll(ReplaceAll(text,
        <<"&">>, E_amp), <<"<">>, E_lt), <<">">>, E_gt), <<"'">>, E_apos)

\* the escapes JSON.stringify applies inside a string literal
JsonQuote(s) ==
    <<"\"">> \o ReplaceAll(ReplaceAll(ReplaceAll(s,
        <<"\\">>, <<"\\", "\\">>), <<"\"">>, <<"\\", "\"">>), <<"\n">>, <<"\\", "n">>)
    \o <<"\"">>

\* JSON.stringify(value) without indentation
RECURSIVE JsonStringify(_)
JsonStringify(v) ==
    CASE IsStr(v) -> JsonQuote(v.str)
      [] IsNum(v) -> NumToChars(v.num)
      [] IsBool(v) -> IF v.bool THEN S_true ELSE S_false
      [] IsNull(v) -> S_null
      [] IsArr(v) ->
            <<"[">> \o Join([i \in 1..Len(v.arr) |-> JsonStringify(v.arr[i])], <<",">>)
            \o <<"]">>
      [] IsObj(v) ->
            <<"{">> \o Join([i \in 1..Len(v.obj) |->
                        JsonQuote(v.obj[i][1]) \o <<":">> \o JsonStringify(v.obj[i][2])],
                      <<",">>)
            \o <<"}">>

\* String(value) for a primitive
StringOf(v) ==
    CASE IsStr(v) -> v.str
      [] IsNum(v) -> NumToChars(v.num)
      [] IsBool(v) -> IF v.bool THEN S_true ELSE S_false
      [] IsNull(v) -> S_null

serializeAttrValue(value) ==
    IF IsNull(value) THEN <<>>
    ELSE IF IsArr(value) \/ IsObj(value) THEN JsonStringify(value)
    ELSE StringOf(value)

\* attrs: the sequence of <<key, value>> entries of the attrs object
attrsToXmlString(attrs) ==
    Flatten([i \in 1..Len(attrs) |->
        <<" ">> \o attrs[i][1] \o <<"=", "'">>
        \o escapeXmlAttr(serializeAttrValue(attrs[i][2])) \o <<"'">>])

attrsOf(r) == IF Has(r, "attrs") THEN r.attrs ELSE <<>>

-----------------------------------------------------------------------------
(* Tree serializer: converters.ts lines 65-125 *)

RECURSIVE wrapMarks(_, _, _)
wrapMarks(result, marks, i) ==
    IF i = 0 THEN result
    ELSE wrapMarks(<<"<">> \o marks[i].type \o attrsToXmlString(attrsOf(marks[i])) \o <<">">>
                   \o result \o <<"<", "/">> \o marks[i].type \o <<">">>,
                   marks, i - 1)

wrapTextWithMarks(text, marks) == wrapMarks(escapeXml(text), marks, Len(marks))

RECURSIVE nodeToXml(_, _)
nodeToXml(node, indent) ==
    IF node.type = S_text /\ Has(node, "text")
    THEN wrapTextWithMarks(node.text.str, IF Has(node, "marks") THEN node.marks ELSE <<>>)
    ELSE LET attrs == attrsToXmlString(attrsOf(node))
         IN IF ~Has(node, "content") \/ node.content = <<>>
            THEN indent \o <<"<">> \o node.type \o attrs \o <<" ", "/", ">">>
            ELSE IF \A i \in 1..Len(node.content) : node.content[i].type = S_text
            THEN indent \o <<"<">> \o node.type \o attrs \o <<">">>
                 \o Flatten([i \in 1..Len(node.content) |-> nodeToXml(node.content[i], <<>>)])
                 \o <<"<", "/">> \o node.type \o <<">">>
            ELSE indent \o <<"<">> \o node.type \o attrs \o <<">", "\n">>
                 \o Join([i \in 1..Len(node.content) |->
                            nodeToXml(node.content[i], indent \o <<" ", " ">>)], <<"\n">>)
                 \o <<"\n">> \o indent \o <<"<", "/">> \o node.type \o <<">">>

jsonToXml_wrapsRoot(d) ==
    <<"<">> \o d.type \o attrsToXmlString(attrsOf(d)) \o <<">">>
    \o (IF ~Has(d, "content") \/ d.content = <<>> THEN <<>>
        ELSE Join([i \in 1..Len(d.content) |-> nodeToXml(d.content[i], <<>>)], <<"\n">>))
    \o <<"<", "/">> \o d.type \o <<">">>

jsonToXml(d) ==
    IF ~Has(d, "content") \/ d.content = <<>> THEN <<>>
    ELSE Join([i \in 1..Len(d.content) |-> nodeToXml(d.content[i], <<>>)], <<"\n">>)

-----------------------------------------------------------------------------
(* The generic XML parse step: fast-xml-parser's XMLParser.parse with the     *)
(* options of converters.ts lines 341-348 (preserveOrder, ignoreAttributes    *)
(* false, attributeNamePrefix '', textNodeName '#text', trimValues false,     *)
(* parseAttributeValue true; parseTagValue and processEntities keep their     *)
(* default, true).  A parsed element is a record: a text run is               *)
(* [text |-> value] (the '#text' key), an element is                          *)
(* [tag |-> name, children |-> <<...>>] with attrs (the ':@' key) when it has *)
(* attributes.  Comments, CDATA, processing instructions, DOCTYPE and the     *)
(* numeric forms of entities and numbers (sign, fraction, exponent, hex) need *)
(* characters outside the modelled alphabet and are not modelled.             *)

RECURSIVE IndexFrom(_, _, _)
IndexFrom(s, c, i) ==
    IF i > Len(s) THEN 0 ELSE IF s[i] = c THEN i ELSE IndexFrom(s, c, i + 1)

RECURSIVE SkipWhile(_, _, _)
SkipWhile(s, i, set) ==
    IF i <= Len(s) /\ s[i] \in set THEN SkipWhile(s, i + 1, set) ELSE i

RECURSIVE SkipUntil(_, _, _)
SkipUntil(s, i, set) ==
    IF i <= Len(s) /\ s[i] \notin set THEN SkipUntil(s, i + 1, set) ELSE i

\* replaceEntitiesValue: the four named entities first, &amp; last
replaceEntitiesValue(val) ==
    ReplaceAll(ReplaceAll(ReplaceAll(ReplaceAll(ReplaceAll(val,
        E_apos, <<"'">>), E_gt, <<">">>), E_lt, <<"<">>), E_quot, <<"\"">>), E_amp, <<"&">>)

\* strnum's toNumber on the modelled alphabet: a string of decimal digits
\* (leading zeros allowed, surrounding whitespace ignored) is its number
toNumber(str) ==
    IF IsDigits(Trim(str)) THEN JNum(CharsToNum(Trim(str))) ELSE JStr(str)

\* parseValue(val, shouldParse = true)
parseValue(val) ==
    IF Trim(val) = S_true THEN JBool(TRUE)
    ELSE IF Trim(val) = S_false THEN JBool(FALSE)
    ELSE toNumber(val)

\* parseTextData with trimValues false: the text is kept untrimmed, and is
\* parsed as a value only when trimming would not change it
parseTextData(val) ==
    LET v == replaceEntitiesValue(val)
    IN IF Trim(v) = v THEN parseValue(v) ELSE JStr(v)

\* saveTextToParentTag: a non-empty text run becomes a '#text' child
saveTextToParentTag(kids, textData) ==
    IF textData = <<>> \/ parseTextData(textData) = JStr(<<>>) THEN kids
    ELSE Append(kids, [text |-> parseTextData(textData)])

\* attrs[aName] = value: a repeated name overwrites in place
RECURSIVE setAttr(_, _, _)
setAttr(attrs, name, value) ==
    IF attrs = <<>> THEN << <<name, value>> >>
    ELSE IF attrs[1][1] = name THEN << <<name, value>> >> \o Tail(attrs)
    ELSE <<attrs[1]>> \o setAttr(Tail(attrs), name, value)

\* buildAttributesMap: the matches of ([^\s=]+)\s*(=\s*(['"])([\s\S]*?)\3)? ,
\* each value entity-decoded and parsed (parseAttributeValue); a name without
\* a quoted value sets nothing
RECURSIVE buildAttributesMap(_, _, _)
buildAttributesMap(attrStr, i, attrs) ==
    LET start == SkipWhile(attrStr, i, WhitespaceChars \cup {"="})
        nameEnd == SkipUntil(attrStr, start, WhitespaceChars \cup {"="})
        eq == SkipWhile(attrStr, nameEnd, WhitespaceChars)
        quote == SkipWhile(attrStr, eq + 1, WhitespaceChars)
        hasQuote == /\ eq <= Len(attrStr) /\ attrStr[eq] = "="
                    /\ quote <= Len(attrStr) /\ attrStr[quote] \in {"'", "\""}
        close == IF hasQuote THEN IndexFrom(attrStr, attrStr[quote], quote + 1) ELSE 0
    IN IF start > Len(attrStr) THEN attrs
       ELSE IF close = 0 THEN buildAttributesMap(attrStr, nameEnd, attrs)
       ELSE buildAttributesMap(attrStr, close + 1,
                setAttr(attrs, SubSeq(attrStr, start, nameEnd - 1),
                        parseValue(replaceEntitiesValue(
                            SubSeq(attrStr, quote + 1, close - 1)))))

\* tagExpWithClosingIndex: the first '>' outside a quoted attribute value
RECURSIVE tagExpWithClosingIndex(_, _, _)
tagExpWithClosingIndex(s, i, attrBoundary) ==
    IF i > Len(s) THEN 0
    ELSE IF attrBoundary # ""
    THEN tagExpWithClosingIndex(s, i + 1, IF s[i] = attrBoundary THEN "" ELSE attrBoundary)
    ELSE IF s[i] \in {"'", "\""} THEN tagExpWithClosingIndex(s, i + 1, s[i])
    ELSE IF s[i] = ">" THEN i
    ELSE tagExpWithClosingIndex(s, i + 1, "")

\* readTagExp and the self-closing test of parseXml, on the text between '<'
\* and '>': the tag name, the attribute expression, whether it self-closes
readTagExp(exp) ==
    LET sep == SkipUntil(exp, 1, WhitespaceChars)
        name0 == SubSeq(exp, 1, sep - 1)
        exp0 == IF sep > Len(exp) THEN exp ELSE TrimStart(Drop(exp, sep))
        selfClosing == exp0 # <<>> /\ exp0[Len(exp0)] = "/"
        slashName == selfClosing /\ name0 # <<>> /\ name0[Len(name0)] = "/"
        name == IF slashName THEN SubSeq(name0, 1, Len(name0) - 1) ELSE name0
        exp1 == IF slashName THEN name
                ELSE IF selfClosing THEN SubSeq(exp0, 1, Len(exp0) - 1)
                ELSE exp0
    IN [tagName |-> name,
        attrs |-> IF name # exp1 THEN buildAttributesMap(exp1, 1, <<>>) ELSE <<>>,
        selfClosing |-> selfClosing]

\* xmlNode.addChild: ':@' is kept only when it has entries
parsedElement(tag, children) ==
    IF tag.attrs = <<>> THEN [tag |-> tag.tagName, children |-> children]
    ELSE [tag |-> tag.tagName, children |-> children, attrs |-> tag.attrs]

ClosingTagError == "Closing Tag is not closed."
OpeningTagError == "Cannot read properties of undefined"

\* parseXml from position i inside one element (or the root): the children
\* read up to the element's closing tag or the end of the input.  Text in
\* front of an opening tag is saved unless the current node is the root; text
\* in front of a closing tag is saved; text at the end of the input is not.
RECURSIVE parseXmlFrom(_, _, _, _, _)
parseXmlFrom(s, i, textData, kids, isRoot) ==
    IF i > Len(s) THEN [ok |-> TRUE, kids |-> kids, next |-> i, closed |-> FALSE]
    ELSE IF s[i] # "<" THEN parseXmlFrom(s, i + 1, Append(textData, s[i]), kids, isRoot)
    ELSE IF i < Len(s) /\ s[i + 1] = "/"
    THEN IF IndexFrom(s, ">", i) = 0
         THEN [ok |-> FALSE, err |-> ClosingTagError]
         ELSE [ok |-> TRUE, kids |-> saveTextToParentTag(kids, textData),
               next |-> IndexFrom(s, ">", i) + 1, closed |-> TRUE]
    ELSE LET close == tagExpWithClosingIndex(s, i + 1, "")
         IN IF close = 0 THEN [ok |-> FALSE, err |-> OpeningTagError]
            ELSE LET tag == readTagExp(SubSeq(s, i + 1, close - 1))
                     kids1 == IF isRoot THEN kids ELSE saveTextToParentTag(kids, textData)
                 IN IF tag.selfClosing
                    THEN parseXmlFrom(s, close + 1, <<>>,
                                      Append(kids1, parsedElement(tag, <<>>)), isRoot)
                    ELSE LET sub == parseXmlFrom(s, close + 1, <<>>, <<>>, FALSE)
                         IN IF ~sub.ok THEN sub
                            ELSE IF sub.closed
                            THEN parseXmlFrom(s, sub.next, <<>>,
                                     Append(kids1, parsedElement(tag, sub.kids)), isRoot)
                            ELSE [ok |-> TRUE, next |-> sub.next, closed |-> FALSE,
                                  kids |-> Append(kids1, parsedElement(tag, sub.kids))]

\* after a closing tag at the root there is no current node: closing tags
\* and text are skipped, an opening tag fails in addChild
RECURSIVE parseXmlDetached(_, _, _)
parseXmlDetached(s, i, kids) ==
    IF i > Len(s) THEN [ok |-> TRUE, kids |-> kids]
    ELSE IF s[i] # "<" THEN parseXmlDetached(s, i + 1, kids)
    ELSE IF i < Len(s) /\ s[i + 1] = "/"
    THEN IF IndexFrom(s, ">", i) = 0
         THEN [ok |-> FALSE, err |-> ClosingTagError]
         ELSE parseXmlDetached(s, IndexFrom(s, ">", i) + 1, kids)
    ELSE [ok |-> FALSE, err |-> OpeningTagError]

\* XMLParser.parse: [ok |-> TRUE, kids |-> ParsedElement[]] or a thrown error
XMLParser_parse(s) ==
    LET r == parseXmlFrom(s, 1, <<>>, <<>>, TRUE)
    IN IF ~r.ok THEN r
       ELSE IF r.closed THEN parseXmlDetached(s, r.next, r.kids)
       ELSE [ok |-> TRUE, kids |-> r.kids]

-----------------------------------------------------------------------------
(* JSON.parse on a character sequence: [ok |-> TRUE, val |-> value] or        *)
(* [ok |-> FALSE] (a SyntaxError).  Objects, arrays, strings with the escapes *)
(* \" \\ \/ \n \t, non-negative integers, true, false, null; the other        *)
(* escapes and number forms need characters outside the modelled alphabet.    *)

JsonFail == [ok |-> FALSE]

\* the string literal whose opening quote is at i - 1: its value and the
\* position after its closing quote
RECURSIVE JsonStringAt(_, _, _)
JsonStringAt(s, i, acc) ==
    IF i > Len(s) \/ s[i] \in {"\n", "\t"} THEN JsonFail
    ELSE IF s[i] = "\"" THEN [ok |-> TRUE, val |-> acc, next |-> i + 1]
    ELSE IF s[i] # "\\" THEN JsonStringAt(s, i + 1, Append(acc, s[i]))
    ELSE IF i = Len(s) THEN JsonFail
    ELSE IF s[i + 1] \in {"\"", "\\", "/"} THEN JsonStringAt(s, i + 2, Append(acc, s[i + 1]))
    ELSE IF s[i + 1] = "n" THEN JsonStringAt(s, i + 2, Append(acc, "\n"))
    ELSE IF s[i + 1] = "t" THEN JsonStringAt(s, i + 2, Append(acc, "\t"))
    ELSE JsonFail

RECURSIVE JsonValueAt(_, _)
RECURSIVE JsonItemsAt(_, _, _)
RECURSIVE JsonMembersAt(_, _, _)

JsonValueAt(s, i0) ==
    LET i == SkipWhile(s, i0, WhitespaceChars)
        numEnd == SkipWhile(s, i, DigitChars)
    IN IF i > Len(s) THEN JsonFail
       ELSE IF s[i] = "\""
       THEN LET r == JsonStringAt(s, i + 1, <<>>)
            IN IF r.ok THEN [ok |-> TRUE, val |-> JStr(r.val), next |-> r.next] ELSE JsonFail
       ELSE IF s[i] = "["
       THEN IF SkipWhile(s, i + 1, WhitespaceChars) <= Len(s)
               /\ s[SkipWhile(s, i + 1, WhitespaceChars)] = "]"
            THEN [ok |-> TRUE, val |-> JArr(<<>>),
                  next |-> SkipWhile(s, i + 1, WhitespaceChars) + 1]
            ELSE JsonItemsAt(s, i + 1, <<>>)
       ELSE IF s[i] = "{"
       THEN IF SkipWhile(s, i + 1, WhitespaceChars) <= Len(s)
               /\ s[SkipWhile(s, i + 1, WhitespaceChars)] = "}"
            THEN [ok |-> TRUE, val |-> JObj(<<>>),
                  next |-> SkipWhile(s, i + 1, WhitespaceChars) + 1]
            ELSE JsonMembersAt(s, i + 1, <<>>)
       ELSE IF StartsWith(Drop(s, i - 1), S_true)
       THEN [ok |-> TRUE, val |-> JBool(TRUE), next |-> i + 4]
       ELSE IF StartsWith(Drop(s, i - 1), S_false)
       THEN [ok |-> TRUE, val |-> JBool(FALSE), next |-> i + 5]
       ELSE IF StartsWith(Drop(s, i - 1), S_null)
       THEN [ok |-> TRUE, val |-> JNull, next |-> i + 4]
       ELSE IF numEnd > i /\ (s[i] # "0" \/ numEnd = i + 1)
       THEN [ok |-> TRUE, val |-> JNum(CharsToNum(SubSeq(s, i, numEnd - 1))), next |-> numEnd]
       ELSE JsonFail

\* the elements of an array after '[' or ','
JsonItemsAt(s, i, items) ==
    LET r == JsonValueAt(s, i)
        j == IF r.ok THEN SkipWhile(s, r.next, WhitespaceChars) ELSE 0
    IN IF ~r.ok \/ j > Len(s) THEN JsonFail
       ELSE IF s[j] = "," THEN JsonItemsAt(s, j + 1, Append(items, r.val))
       ELSE IF s[j] = "]" THEN [ok |-> TRUE, val |-> JArr(Append(items, r.val)), next |-> j + 1]
       ELSE JsonFail

\* the members of an object after '{' or ',': a repeated key overwrites
JsonMembersAt(s, i, pairs) ==
    LET k == SkipWhile(s, i, WhitespaceChars)
        key == IF k <= Len(s) /\ s[k] = "\"" THEN JsonStringAt(s, k + 1, <<>>) ELSE JsonFail
        colon == IF key.ok THEN SkipWhile(s, key.next, WhitespaceChars) ELSE 0
        r == IF key.ok /\ colon <= Len(s) /\ s[colon] = ":"
             THEN JsonValueAt(s, colon + 1) ELSE JsonFail
        j == IF r.ok THEN SkipWhile(s, r.next, WhitespaceChars) ELSE 0
    IN IF ~r.ok \/ j > Len(s) THEN JsonFail
       ELSE IF s[j] = "," THEN JsonMembersAt(s, j + 1, setAttr(pairs, key.val, r.val))
       ELSE IF s[j] = "}"
       THEN [ok |-> TRUE, val |-> JObj(setAttr(pairs, key.val, r.val)), next |-> j + 1]
       ELSE JsonFail

JSON_parse(s) ==
    LET r == JsonValueAt(s, 1)
    IN IF r.ok /\ SkipWhile(s, r.next, WhitespaceChars) > Len(s)
       THEN [ok |-> TRUE, val |-> r.val] ELSE JsonFail

-----------------------------------------------------------------------------
(* Markup parser: converters.ts lines 131-364 *)

S_bold == <<"b", "o", "l", "d">>
S_italic == <<"i", "t", "a", "l", "i", "c">>
S_strike == <<"s", "t", "r", "i", "k", "e">>
S_underline == <<"u", "n", "d", "e", "r", "l", "i", "n", "e">>
S_code == <<"c", "o", "d", "e">>
S_link == <<"l", "i", "n", "k">>
S_textStyle == <<"t", "e", "x", "t", "S", "t", "y", "l", "e">>
S_highlight == <<"h", "i", "g", "h", "l", "i", "g", "h", "t">>
S_subscript == <<"s", "u", "b", "s", "c", "r", "i", "p", "t">>
S_superscript == <<"s", "u", "p", "e", "r", "s", "c", "r", "i", "p", "t">>

MARK_TYPES == {S_bold, S_italic, S_strike, S_underline, S_code,
               S_link, S_textStyle, S_highlight, S_subscript, S_superscript}

isMarkType_withoutCode(tagName) == tagName \in MARK_TYPES \ {S_code}

isMarkType(tagName) == tagName \in MARK_TYPES

deserializeAttrValue(value) ==
    IF ~IsStr(value) THEN value
    ELSE LET trimmed == Trim(value.str)
         IN IF \/ StartsWith(trimmed, <<"{">>) /\ EndsWith(trimmed, <<"}">>)
               \/ StartsWith(trimmed, <<"[">>) /\ EndsWith(trimmed, <<"]">>)
            THEN IF JSON_parse(trimmed).ok THEN JSON_parse(trimmed).val ELSE value
            ELSE value

\* attrs: the entries of the ':@' object, <<>> when the key is absent; the
\* result <<>> stands for undefined
processAttrs(attrs) ==
    [i \in 1..Len(attrs) |-> <<attrs[i][1], deserializeAttrValue(attrs[i][2])>>]

rawAttrs(element) == IF Has(element, "attrs") THEN element.attrs ELSE <<>>

\* the tag name of a parsed element; <<>> stands for null (the callers only
\* test it for truthiness, which the empty string fails too)
getTagName(element) == IF Has(element, "tag") THEN element.tag ELSE <<>>

\* the JavaScript truthiness of a '#text' value
Truthy(v) ==
    CASE IsStr(v) -> v.str # <<>>
      [] IsNum(v) -> v.num # 0
      [] IsBool(v) -> v.bool
      [] OTHER -> FALSE

\* text && !isWhitespaceOnly(text): a number or boolean is tested as String(text)
keepsText(element) ==
    /\ Has(element, "text")
    /\ Truthy(element.text)
    /\ ~isWhitespaceOnly(StringOf(element.text))

textNode(text, marks) ==
    IF marks = <<>> THEN [type |-> S_text, text |-> text]
    ELSE [type |-> S_text, text |-> text, marks |-> marks]

markOf(tagName, attrs) ==
    IF attrs = <<>> THEN [type |-> tagName] ELSE [type |-> tagName, attrs |-> attrs]

NoTagNameError == "Element has no tag name"

\* { type: tagName, attrs?, content? }: attrs and content only when non-empty
regularNode(tagName, attrs, content) ==
    IF attrs # <<>> /\ content # <<>>
    THEN [type |-> tagName, attrs |-> attrs, content |-> content]
    ELSE IF attrs # <<>> THEN [type |-> tagName, attrs |-> attrs]
    ELSE IF content # <<>> THEN [type |-> tagName, content |-> content]
    ELSE [type |-> tagName]

\* The three loops of the parser share one shape and call each other, so they
\* are one recursive operator; loop names the loop being run:
\*   "marks"    the loop of extractTextWithMarks (lines 206-240),
\*   "children" the loop of convertElement over the children (lines 267-288),
\*   "top"      the loop of processElements (lines 304-331).
\* In "children" and "top" a mark element is handed to
\* extractTextWithMarks([child], []), which looks at the child's own '#text'
\* again before descending with the child's mark.
\* the loops with the accumulated marks carried on into a regular element
RECURSIVE convertNodes_marksLeak(_, _, _)
convertNodes_marksLeak(loop, elements, parentMarks) ==
    Flatten([i \in 1..Len(elements) |->
        (IF keepsText(elements[i])
         THEN <<textNode(elements[i].text, parentMarks)>> ELSE <<>>)
        \o (IF getTagName(elements[i]) = <<>> THEN <<>>
            ELSE IF loop = "top" /\ getTagName(elements[i]) = S_doc
            THEN convertNodes_marksLeak("top", elements[i].children, <<>>)
            ELSE IF isMarkType(getTagName(elements[i]))
            THEN convertNodes_marksLeak("marks", elements[i].children,
                        Append(parentMarks,
                               markOf(getTagName(elements[i]),
                                      processAttrs(rawAttrs(elements[i])))))
            ELSE <<regularNode(getTagName(elements[i]),
                               processAttrs(rawAttrs(elements[i])),
                               convertNodes_marksLeak("children", elements[i].children,
                                                      parentMarks))>>)])

RECURSIVE convertNodes(_, _, _)
convertNodes(loop, elements, parentMarks) ==
    Flatten([i \in 1..Len(elements) |->
        (IF keepsText(elements[i])
         THEN <<textNode(elements[i].text, parentMarks)>> ELSE <<>>)
        \o (IF getTagName(elements[i]) = <<>> THEN <<>>
            ELSE IF loop = "top" /\ getTagName(elements[i]) = S_doc
            THEN convertNodes("top", elements[i].children, <<>>)
            ELSE IF isMarkType(getTagName(elements[i]))
            THEN (IF loop # "marks" /\ keepsText(elements[i])
                  THEN <<textNode(elements[i].text, <<>>)>> ELSE <<>>)
                 \o convertNodes("marks", elements[i].children,
                        Append(parentMarks,
                               markOf(getTagName(elements[i]),
                                      processAttrs(rawAttrs(elements[i])))))
            ELSE <<regularNode(getTagName(elements[i]),
                               processAttrs(rawAttrs(elements[i])),
                               convertNodes("children", elements[i].children, <<>>))>>)])

extractTextWithMarks(elements, parentMarks) == convertNodes("marks", elements, parentMarks)

\* [throws |-> message] stands for the thrown Error
convertElement(element) ==
    IF getTagName(element) = <<>> THEN [throws |-> NoTagNameError]
    ELSE regularNode(getTagName(element), processAttrs(rawAttrs(element)),
                     convertNodes("children", element.children, <<>>))

processElements(elements) == convertNodes("top", elements, <<>>)

\* the Document xmlToJson builds from the content processElements returned
docOfContent(content) ==
    IF content # <<>> THEN [type |-> S_doc, content |-> content] ELSE [type |-> S_doc]

\* the outcome of xmlToJson given the outcome p of parser.parse
xmlToJsonOf(p) ==
    IF ~p.ok THEN [ok |-> FALSE, err |-> p.err]
    ELSE IF p.kids = <<>> THEN [ok |-> TRUE, val |-> [type |-> S_doc, content |-> <<>>]]
    ELSE [ok |-> TRUE, val |-> docOfContent(processElements(p.kids))]

\* [ok |-> TRUE, val |-> Document] or [ok |-> FALSE, err |-> message] (a throw)
xmlToJson(x) == xmlToJsonOf(XMLParser_parse(x))

Null == "null"

\* the two ways a call ends
Returns(v) == [returns |-> v]
Throws(e) == [throws |-> e]

\* the outcome of validateXml given the outcome p of its parser.parse: the
\* catch turns the thrown Error into its message.  (The options of lines
\* 371-374 differ from xmlToJson's in how values are read, never in which
\* texts are rejected.)
validateXmlOf_uncaught(p) == IF p.ok THEN Returns(Null) ELSE Throws(p.err)

validateXmlOf(p) == IF p.ok THEN Returns(Null) ELSE Returns(p.err)

validateXml(x) == validateXmlOf(XMLParser_parse(x))

SyntaxErrorMessage == "Unexpected token in JSON"

\* the outcome of validateJson given the outcome r of its JSON.parse
validateJsonOf(r) == IF r.ok THEN Returns(Null) ELSE Returns(SyntaxErrorMessage)

validateJson(j) == validateJsonOf(JSON_parse(j))

-----------------------------------------------------------------------------
(* The two panels: App.tsx.  The XML panel's text is a character sequence.   *)
(* The JSON panel's text is kept as the outcome JSON.parse has on it,         *)
(* [ok |-> TRUE, val |-> value] or JsonFail, so that JSON.stringify(doc,      *)
(* null, 2) is the text whose parse is doc.                                   *)

INITIAL_DOC == [type |-> S_doc, content |-> <<>>]

JSON_stringify(v) == [ok |-> TRUE, val |-> v]

INITIAL_JSON == JSON_stringify(INITIAL_DOC)
INITIAL_XML == <<>>

\* a debounced function: the call waiting for its delay to pass, if any
NoTimer == [armed |-> FALSE]
Timer(arg) == [armed |-> TRUE, arg |-> arg]

\* useDebounce(callback, delay)(arg): the call replaces the one still waiting
debounced(arg) == Timer(arg)

NoEdit == [panel |-> "none"]

AppIdle ==
    /\ jsonValue = INITIAL_JSON
    /\ xmlValue = INITIAL_XML
    /\ conversionError = Null
    /\ activeEditor = "null"
    /\ isSyncing = FALSE
    /\ jsonTimer = NoTimer
    /\ xmlTimer = NoTimer
    /\ resetTimers = 0
    /\ step = [op |-> "init"]
    /\ lastEdit = NoEdit
    /\ jsonEditor = INITIAL_JSON
    /\ xmlEditor = INITIAL_XML
    /\ armedBy = [json |-> "none", xml |-> "none"]

-----------------------------------------------------------------------------
(* Converter bench: a Document is serialised, the XML text is optionally     *)
(* edited (whitespace between tags, a <doc> wrapper) and parsed back.         *)

MaxTextLen == 3
MaxMarks == 2
MaxKids == 2
MaxAttrs == 2

SeqsUpTo(S, n) == UNION {[1..k -> S] : k \in 0..n}

TextChars == {"a", " ", "0", "&", "<", ">", "\"", "'"}
\* texts that already read as entities
EntityTexts == {E_lt, E_amp, <<"&", "a", "m", "p", ";", "l", "t", ";">>}
Texts == SeqsUpTo(TextChars, MaxTextLen) \cup EntityTexts

S_p == <<"p">>
S_hr == <<"h", "r">>
S_k == <<"k">>

Txt(t, ms) ==
    IF ms = <<>> THEN [type |-> S_text, text |-> JStr(t)]
    ELSE [type |-> S_text, text |-> JStr(t), marks |-> ms]
Elem(type, attrs) == IF attrs = <<>> THEN [type |-> type] ELSE [type |-> type, attrs |-> attrs]
ElemWith(type, attrs, content) == Elem(type, attrs) @@ [content |-> content]
DocOf(content) == [type |-> S_doc, content |-> content]

\* attribute values: primitives and structured values whose strings carry the
\* characters the attribute escaping and the JSON encoding must protect
PrimitiveValues ==
    {JStr(<<"a">>), JStr(<<"#">>), JStr(<<"1">>), JStr(<<"a", " ">>),
     JNum(0), JNum(12), JBool(TRUE), JNull}
StructuredValues ==
    {JObj(<<>>), JArr(<<>>),
     JObj(<< <<<<"r">>, JNum(1)>>, <<<<"g">>, JNum(2)>> >>),
     JObj(<< <<<<"r">>, JStr(<<"'">>)>> >>),
     JObj(<< <<<<"r">>, JStr(<<"\"", "&">>)>> >>),
     JArr(<<JStr(<<"<", ">">>), JNull, JBool(FALSE)>>),
     JArr(<<JStr(<<"\\", "\n">>), JNum(10)>>),
     JObj(<< <<<<"&">>, JArr(<<JObj(<< <<<<"'">>, JStr(<<"]">>)>> >>)>>)>> >>)}
AttrValues == PrimitiveValues \cup StructuredValues
AttrKeys == {S_k, <<"c">>}
AttrMaps ==
    {a \in SeqsUpTo(AttrKeys \X AttrValues, MaxAttrs) :
        \A i, j \in 1..Len(a) : i # j => a[i][1] # a[j][1]}

PlainMarks == {[type |-> S_bold], [type |-> S_code]}
PlainMarkSeqs == SeqsUpTo(PlainMarks, MaxMarks)

\* one paragraph holding one text node: every text without marks, and the
\* texts that matter under a mark, under every mark sequence
MarkedTexts == {<<"a">>, <<"0">>, <<"<", "&">>, E_lt}
TextDocs ==
    {DocOf(<<ElemWith(S_p, <<>>, <<Txt(t, <<>>)>>)>>) : t \in Texts}
    \cup {DocOf(<<ElemWith(S_p, <<>>, <<Txt(t, ms)>>)>>) : t \in MarkedTexts, ms \in PlainMarkSeqs}

\* attributes on an element, and one attribute on an element with content,
\* on a mark and on the root
OneAttr == {a \in AttrMaps : Len(a) <= 1}
AttrDocs ==
    {DocOf(<<Elem(S_hr, a)>>) : a \in AttrMaps}
    \cup {DocOf(<<ElemWith(S_p, a, <<Txt(<<"a">>, <<>>)>>)>>) : a \in OneAttr}
    \cup {DocOf(<<ElemWith(S_p, <<>>, <<Txt(<<"a">>, <<[type |-> S_bold], Elem(S_link, a)>>)>>)>>) :
            a \in OneAttr}
    \cup {[type |-> S_doc, attrs |-> a, content |-> <<Elem(S_hr, <<>>)>>] : a \in OneAttr}

\* structure: text, marked text and elements mixed, two levels deep
Leaves == {Txt(<<"a">>, <<>>), Txt(<<"a">>, <<[type |-> S_bold]>>), Elem(S_hr, <<>>)}
Blocks == {Elem(S_p, <<>>)} \cup {ElemWith(S_p, <<>>, c) : c \in SeqsUpTo(Leaves, MaxKids)}
Nested == {ElemWith(S_p, <<>>, <<b>>) : b \in Blocks}
TreeDocs ==
    {[type |-> S_doc]}
    \cup {DocOf(c) : c \in SeqsUpTo(Leaves, MaxKids)}
    \cup {DocOf(<<b>>) : b \in Blocks \cup Nested}
    \cup {DocOf(<<b, n>>) : b \in Blocks, n \in Leaves \cup {ElemWith(S_p, <<>>, <<Elem(S_hr, <<>>)>>)}}

Docs == TextDocs \cup AttrDocs \cup TreeDocs

WhitespaceRuns == {<<" ">>, <<"\n">>, <<"\n", " ", " ">>}

\* XML texts typed by hand rather than produced by the serializer
XmlInputs ==
    {<<"h", "i">>,
     <<"<", "p", ">", "a", "<", "b", "o", "l", "d", ">", "b", "<", "/", "b", "o", "l", "d", ">",
       "c", "<", "h", "r", "/", ">", "d", "<", "/", "p", ">">>,
     <<"<", "d", "o", "c", ">", "<", "p", ">", "a", "<", "/", "p", ">", "<", "/", "d", "o", "c", ">">>,
     <<"<", "p", " ", "k", "=", "\"", "1", "\"", ">", "<", "/", "p", ">">>,
     <<"<", "b", "o", "l", "d", ">", "a", "<", "p", ">", "b", "<", "/", "p", ">",
       "<", "/", "b", "o", "l", "d", ">">>,
     <<"<", "b", "o", "l", "d", ">", "<", "c", "o", "d", "e", ">", "a", "<", "/", "c", "o", "d", "e", ">",
       "b", "<", "/", "b", "o", "l", "d", ">">>,
     <<"<", "p", ">", "<", "b", "o", "l", "d", ">", "a", "<", "p", ">", "<", "c", "o", "d", "e", ">", "b",
       "<", "/", "c", "o", "d", "e", ">", "c", "<", "/", "p", ">", "d", "<", "/", "b", "o", "l", "d", ">",
       "<", "/", "p", ">">>,
     <<"<", "p", ">", "a", "<", "b", "o", "l", "d", ">", "0", "<", "/", "b", "o", "l", "d", ">",
       "<", "h", "r", "/", ">", "b", "<", "/", "p", ">">>,
     <<"<", "p">>,
     <<"<", "/", "p">>}

\* JSON texts typed by hand: values, values in the wrong place, cut-off texts
JsonInputs ==
    {<<"{", "}">>,
     <<"n", "u", "l", "l">>,
     <<" ", "[", "1", ",", "\"", "a", "\"", ",", "t", "r", "u", "e", "]", "\n">>,
     <<"{", "\"", "k", "\"", ":", "{", "\"", "r", "\"", ":", "0", "}", "}">>,
     <<"\"", "\\", "n", "\"">>,
     <<>>,
     <<"{">>,
     <<"{", "k", ":", "1", "}">>,
     <<"[", "1", ",", "]">>,
     <<"t", "r", "u">>,
     <<"1", " ", "2">>,
     <<"\"", "a">>}

\* parsed representations: an element with neither '#text' nor a tag name
\* (only its ':@' key) at the top level, under a regular element, under a
\* mark element and under doc, and representations without one
NoTagElement == [attrs |-> << <<S_k, JNum(1)>> >>]
ParsedInputs ==
    {<<NoTagElement>>,
     <<[tag |-> S_p, children |-> <<[text |-> JStr(<<"a">>)], NoTagElement>>]>>,
     <<[tag |-> S_bold, children |-> <<NoTagElement, [text |-> JStr(<<"a">>)]>>]>>,
     <<[tag |-> S_doc, children |-> <<NoTagElement, [tag |-> S_hr, children |-> <<>>]>>]>>,
     <<[tag |-> S_p, children |-> <<[text |-> JStr(<<"a">>)]>>]>>,
     <<[tag |-> S_bold, children |-> <<[text |-> JStr(<<"a">>)]>>], [tag |-> S_hr, children |-> <<>>]>>}

NoResult == [ok |-> FALSE, err |-> "none"]
NoCall == [fn |-> "none"]

BenchInit ==
    /\ doc \in Docs
    /\ xml = <<>>
    /\ xmlBase = <<>>
    /\ edit = "none"
    /\ parsed = NoResult
    /\ parsedBase = NoResult
    /\ phase = "doc"
    /\ checked = NoCall
    /\ AppIdle

\* jsonToXml(doc)
Serialize ==
    /\ phase = "doc"
    /\ xml' = jsonToXml(doc)
    /\ xmlBase' = jsonToXml(doc)
    /\ phase' = "xml"
    /\ UNCHANGED <<doc, edit, parsed, parsedBase, checked>>
    /\ UNCHANGED appVars

\* an XML text typed into the XML panel
TypeXml ==
    /\ phase = "doc"
    /\ doc = INITIAL_DOC
    /\ \E x \in XmlInputs : xml' = x /\ xmlBase' = x
    /\ phase' = "xml"
    /\ edit' = "typed"
    /\ UNCHANGED <<doc, parsed, parsedBase, checked>>
    /\ UNCHANGED appVars

\* the last '>' at or before position i (0 when there is none) and the first
\* '<' after it (Len + 1 when there is none)
RECURSIVE LastTagEnd(_, _)
LastTagEnd(x, i) == IF i = 0 \/ x[i] = ">" THEN i ELSE LastTagEnd(x, i - 1)

RECURSIVE NextTagStart(_, _)
NextTagStart(x, i) == IF i > Len(x) \/ x[i] = "<" THEN i ELSE NextTagStart(x, i + 1)

\* a place between two elements: the text run around the gap after character
\* i, from the tag before it to the tag after it, is empty or whitespace
TagBoundary(x, i) ==
    /\ i \in 0..Len(x)
    /\ \A k \in (LastTagEnd(x, i) + 1)..(NextTagStart(x, i + 1) - 1) : x[k] \in WhitespaceChars

InsertAt(x, i, ws) == SubSeq(x, 1, i) \o ws \o SubSeq(x, i + 1, Len(x))

InsertWhitespace ==
    /\ phase = "xml"
    /\ edit \in {"none", "typed"}
    /\ \E i \in 0..Len(xml), ws \in WhitespaceRuns :
          /\ TagBoundary(xml, i)
          /\ xml' = InsertAt(xml, i, ws)
    /\ edit' = "whitespace"
    /\ UNCHANGED <<doc, xmlBase, parsed, parsedBase, phase, checked>>
    /\ UNCHANGED appVars

WrapDoc ==
    /\ phase = "xml"
    /\ edit \in {"none", "typed"}
    /\ xml' = <<"<">> \o S_doc \o <<">">> \o xml \o <<"<", "/">> \o S_doc \o <<">">>
    /\ edit' = "docwrap"
    /\ UNCHANGED <<doc, xmlBase, parsed, parsedBase, phase, checked>>
    /\ UNCHANGED appVars

\* xmlToJson(xml), and of the unedited text beside it
Parse ==
    /\ phase = "xml"
    /\ parsed' = xmlToJson(xml)
    /\ parsedBase' = xmlToJson(xmlBase)
    /\ phase' = "parsed"
    /\ UNCHANGED <<doc, xml, xmlBase, edit, checked>>
    /\ UNCHANGED appVars

\* validateXml(xml)
ValidateXml ==
    /\ phase = "xml"
    /\ edit \in {"none", "typed"}
    /\ checked' = [fn |-> "validateXml", input |-> xml, outcome |-> validateXml(xml)]
    /\ phase' = "validated"
    /\ UNCHANGED <<doc, xml, xmlBase, edit, parsed, parsedBase>>
    /\ UNCHANGED appVars

\* validateJson(json) of a text typed into the JSON panel
ValidateJson ==
    /\ phase = "doc"
    /\ doc = INITIAL_DOC
    /\ \E j \in JsonInputs :
          checked' = [fn |-> "validateJson", input |-> j, outcome |-> validateJson(j)]
    /\ phase' = "validated"
    /\ UNCHANGED <<doc, xml, xmlBase, edit, parsed, parsedBase>>
    /\ UNCHANGED appVars

\* the rest of xmlToJson (lines 352-363) on a parsed representation handed
\* over as it is
ConvertParsed ==
    /\ phase = "doc"
    /\ doc = INITIAL_DOC
    /\ \E r \in ParsedInputs :
          checked' = [fn |-> "xmlToJson", input |-> r,
                      outcome |-> xmlToJsonOf([ok |-> TRUE, kids |-> r])]
    /\ phase' = "converted"
    /\ UNCHANGED <<doc, xml, xmlBase, edit, parsed, parsedBase>>
    /\ UNCHANGED appVars

BenchNext ==
    Serialize \/ TypeXml \/ InsertWhitespace \/ WrapDoc \/ Parse \/ ValidateXml \/ ValidateJson
    \/ ConvertParsed

Spec == BenchInit /\ [][BenchNext]_vars

-----------------------------------------------------------------------------
(* The two panels: the handlers of App.tsx and the events that run them *)

TypeErrorMessage == "Cannot read properties of null (reading 'content')"

\* lines 46-47: jsonToXml(JSON.parse(json)); reading .content of null throws
convertJson(json) ==
    IF IsNull(json.val) THEN Throws(TypeErrorMessage) ELSE Returns(jsonToXml(json.val))

\* lines 74-75: JSON.stringify(xmlToJson(xml), null, 2)
convertXml(p) ==
    IF xmlToJsonOf(p).ok THEN Returns(JSON_stringify(xmlToJsonOf(p).val))
    ELSE Throws(xmlToJsonOf(p).err)

Attempt(op, outcome) == [op |-> op, outcome |-> outcome]

syncJsonToXml_clearsOnFailure(json) ==
    IF activeEditor # "json" \/ isSyncing
    THEN /\ step' = Attempt("syncJsonToXml", "skipped")
         /\ UNCHANGED <<jsonValue, xmlValue, conversionError, isSyncing, resetTimers>>
    ELSE IF validateJsonOf(json).returns # Null
    THEN /\ step' = Attempt("syncJsonToXml", "invalid")
         /\ UNCHANGED <<jsonValue, xmlValue, conversionError, isSyncing, resetTimers>>
    ELSE /\ isSyncing' = TRUE
         /\ resetTimers' = resetTimers + 1
         /\ IF Has(convertJson(json), "throws")
            THEN /\ conversionError' = convertJson(json).throws
                 /\ step' = Attempt("syncJsonToXml", "threw")
                 /\ xmlValue' = <<>>
            ELSE /\ xmlValue' = convertJson(json).returns
                 /\ conversionError' = Null
                 /\ step' = Attempt("syncJsonToXml", "synced")
         /\ UNCHANGED jsonValue

syncJsonToXml(json) ==
    IF activeEditor # "json" \/ isSyncing
    THEN /\ step' = Attempt("syncJsonToXml", "skipped")
         /\ UNCHANGED <<jsonValue, xmlValue, conversionError, isSyncing, resetTimers>>
    ELSE IF validateJsonOf(json).returns # Null
    THEN /\ step' = Attempt("syncJsonToXml", "invalid")
         /\ UNCHANGED <<jsonValue, xmlValue, conversionError, isSyncing, resetTimers>>
    ELSE /\ isSyncing' = TRUE
         /\ resetTimers' = resetTimers + 1
         /\ IF Has(convertJson(json), "throws")
            THEN /\ conversionError' = convertJson(json).throws
                 /\ step' = Attempt("syncJsonToXml", "threw")
                 /\ UNCHANGED xmlValue
            ELSE /\ xmlValue' = convertJson(json).returns
                 /\ conversionError' = Null
                 /\ step' = Attempt("syncJsonToXml", "synced")
         /\ UNCHANGED jsonValue

\* syncXmlToJson without the test of the active editor
syncXmlToJsonOf_anyEditor(p) ==
    IF isSyncing
    THEN /\ step' = Attempt("syncXmlToJson", "skipped")
         /\ UNCHANGED <<jsonValue, xmlValue, conversionError, isSyncing, resetTimers>>
    ELSE IF validateXmlOf(p).returns # Null
    THEN /\ step' = Attempt("syncXmlToJson", "invalid")
         /\ UNCHANGED <<jsonValue, xmlValue, conversionError, isSyncing, resetTimers>>
    ELSE /\ isSyncing' = TRUE
         /\ resetTimers' = resetTimers + 1
         /\ IF Has(convertXml(p), "throws")
            THEN /\ conversionError' = convertXml(p).throws
                 /\ step' = Attempt("syncXmlToJson", "threw")
                 /\ UNCHANGED jsonValue
            ELSE /\ jsonValue' = convertXml(p).returns
                 /\ conversionError' = Null
                 /\ step' = Attempt("syncXmlToJson", "synced")
         /\ UNCHANGED xmlValue

\* syncXmlToJson with the flag set on entry, ahead of the early returns
syncXmlToJsonOf_flagOnEntry(p) ==
    IF activeEditor # "xml" \/ isSyncing
    THEN /\ step' = Attempt("syncXmlToJson", "skipped")
         /\ isSyncing' = TRUE
         /\ UNCHANGED <<jsonValue, xmlValue, conversionError, resetTimers>>
    ELSE IF validateXmlOf(p).returns # Null
    THEN /\ step' = Attempt("syncXmlToJson", "invalid")
         /\ isSyncing' = TRUE
         /\ UNCHANGED <<jsonValue, xmlValue, conversionError, resetTimers>>
    ELSE /\ isSyncing' = TRUE
         /\ resetTimers' = resetTimers + 1
         /\ IF Has(convertXml(p), "throws")
            THEN /\ conversionError' = convertXml(p).throws
                 /\ step' = Attempt("syncXmlToJson", "threw")
                 /\ UNCHANGED jsonValue
            ELSE /\ jsonValue' = convertXml(p).returns
                 /\ conversionError' = Null
                 /\ step' = Attempt("syncXmlToJson", "synced")
         /\ UNCHANGED xmlValue

syncXmlToJsonOf(p) ==
    IF activeEditor # "xml" \/ isSyncing
    THEN /\ step' = Attempt("syncXmlToJson", "skipped")
         /\ UNCHANGED <<jsonValue, xmlValue, conversionError, isSyncing, resetTimers>>
    ELSE IF validateXmlOf(p).returns # Null
    THEN /\ step' = Attempt("syncXmlToJson", "invalid")
         /\ UNCHANGED <<jsonValue, xmlValue, conversionError, isSyncing, resetTimers>>
    ELSE /\ isSyncing' = TRUE
         /\ resetTimers' = resetTimers + 1
         /\ IF Has(convertXml(p), "throws")
            THEN /\ conversionError' = convertXml(p).throws
                 /\ step' = Attempt("syncXmlToJson", "threw")
                 /\ UNCHANGED jsonValue
            ELSE /\ jsonValue' = convertXml(p).returns
                 /\ conversionError' = Null
                 /\ step' = Attempt("syncXmlToJson", "synced")
         /\ UNCHANGED xmlValue

syncXmlToJson(x) == syncXmlToJsonOf(XMLParser_parse(x))

handleJsonChange(value) ==
    /\ jsonValue' = value
    /\ jsonTimer' = IF ~isSyncing THEN debounced(value) ELSE jsonTimer

handleXmlChange(value) ==
    /\ xmlValue' = value
    /\ xmlTimer' = IF ~isSyncing THEN debounced(value) ELSE xmlTimer

handleJsonFocus == activeEditor' = "json"

handleXmlFocus == activeEditor' = "xml"

\* the texts a user leaves in the JSON panel: documents, a value that is no
\* document, a text that is no JSON
JsonEdits ==
    {JSON_stringify(DocOf(<<ElemWith(S_p, <<>>, <<Txt(<<"a">>, <<>>)>>)>>)),
     JSON_stringify(DocOf(<<Elem(S_hr, <<>>)>>)),
     JSON_stringify(JNull),
     JsonFail}

\* the texts a user leaves in the XML panel: markup, and a cut-off tag
XmlEdits ==
    {<<"<", "p", ">", "a", "<", "/", "p", ">">>,
     <<"<", "h", "r", " ", "/", ">">>,
     <<"<", "p">>}

BenchIdle ==
    /\ doc = INITIAL_DOC
    /\ xml = <<>>
    /\ xmlBase = <<>>
    /\ edit = "none"
    /\ parsed = NoResult
    /\ parsedBase = NoResult
    /\ phase = "idle"
    /\ checked = NoCall

AppInit == AppIdle /\ BenchIdle

\* the listener of onDidChangeModelContent of the JSON editor (JsonEditor.tsx
\* lines 65-71): it returns at once while isExternalUpdateRef is set, else it
\* hands the editor's text to onChange.  cause records for armedBy what changed
\* the text.
onDidChangeModelContent_json(isExternalUpdate, newValue, cause) ==
    IF isExternalUpdate THEN UNCHANGED <<jsonValue, jsonTimer, armedBy>>
    ELSE /\ handleJsonChange(newValue)
         /\ armedBy' = IF ~isSyncing THEN [armedBy EXCEPT !.json = cause] ELSE armedBy

\* the same listener of the XML editor (JsonEditor.tsx lines 195-202)
onDidChangeModelContent_xml(isExternalUpdate, newValue, cause) ==
    IF isExternalUpdate THEN UNCHANGED <<xmlValue, xmlTimer, armedBy>>
    ELSE /\ handleXmlChange(newValue)
         /\ armedBy' = IF ~isSyncing THEN [armedBy EXCEPT !.xml = cause] ELSE armedBy

\* onDidFocusEditorText of the JSON editor (JsonEditor.tsx lines 87-89)
FocusJson ==
    /\ activeEditor # "json"
    /\ handleJsonFocus
    /\ step' = [op |-> "handleJsonFocus"]
    /\ UNCHANGED <<jsonValue, xmlValue, conversionError, isSyncing, jsonTimer, xmlTimer,
                   resetTimers, lastEdit, jsonEditor, xmlEditor, armedBy>>
    /\ UNCHANGED benchVars

FocusXml ==
    /\ activeEditor # "xml"
    /\ handleXmlFocus
    /\ step' = [op |-> "handleXmlFocus"]
    /\ UNCHANGED <<jsonValue, xmlValue, conversionError, isSyncing, jsonTimer, xmlTimer,
                   resetTimers, lastEdit, jsonEditor, xmlEditor, armedBy>>
    /\ UNCHANGED benchVars

\* the user changes the text of the editor that has the focus: the listener
\* runs outside any external update
EditJson ==
    /\ activeEditor = "json"
    /\ \E value \in JsonEdits :
          /\ value # jsonEditor
          /\ jsonEditor' = value
          /\ onDidChangeModelContent_json(FALSE, value, "user")
          /\ lastEdit' = [panel |-> "json", text |-> value]
    /\ step' = [op |-> "handleJsonChange", cause |-> "user"]
    /\ UNCHANGED <<xmlValue, conversionError, activeEditor, isSyncing, xmlTimer, resetTimers,
                   xmlEditor>>
    /\ UNCHANGED benchVars

EditXml ==
    /\ activeEditor = "xml"
    /\ \E value \in XmlEdits :
          /\ value # xmlEditor
          /\ xmlEditor' = value
          /\ onDidChangeModelContent_xml(FALSE, value, "user")
          /\ lastEdit' = [panel |-> "xml", text |-> value]
    /\ step' = [op |-> "handleXmlChange", cause |-> "user"]
    /\ UNCHANGED <<jsonValue, conversionError, activeEditor, isSyncing, jsonTimer, resetTimers,
                   jsonEditor>>
    /\ UNCHANGED benchVars

\* After a sync has set jsonValue the editor's text differs from the value
\* prop.  The effect of JsonEditor (lines 92-105) then calls setValue between
\* isExternalUpdateRef = true and = false, so the listener returns at once.
JsonEditorSetValue ==
    /\ jsonEditor # jsonValue
    /\ jsonEditor' = jsonValue
    /\ onDidChangeModelContent_json(TRUE, jsonValue, "sync")
    /\ step' = [op |-> "useEffect", panel |-> "json"]
    /\ UNCHANGED <<xmlValue, conversionError, activeEditor, isSyncing, xmlTimer, resetTimers,
                   lastEdit, xmlEditor>>
    /\ UNCHANGED benchVars

\* The same value is also the value prop of the Editor component (line 112),
\* a controlled component of @monaco-editor/react that is not part of the
\* sources: when it writes the prop into the editor itself, ahead of the
\* effect above, the text changes while isExternalUpdateRef is false and the
\* listener hands it to onChange.
JsonEditorValueProp ==
    /\ jsonEditor # jsonValue
    /\ jsonEditor' = jsonValue
    /\ onDidChangeModelContent_json(FALSE, jsonValue, "sync")
    /\ step' = [op |-> "handleJsonChange", cause |-> "sync"]
    /\ UNCHANGED <<xmlValue, conversionError, activeEditor, isSyncing, xmlTimer, resetTimers,
                   lastEdit, xmlEditor>>
    /\ UNCHANGED benchVars

\* the effect of XmlEditor (JsonEditor.tsx lines 214-228)
XmlEditorSetValue ==
    /\ xmlEditor # xmlValue
    /\ xmlEditor' = xmlValue
    /\ onDidChangeModelContent_xml(TRUE, xmlValue, "sync")
    /\ step' = [op |-> "useEffect", panel |-> "xml"]
    /\ UNCHANGED <<jsonValue, conversionError, activeEditor, isSyncing, jsonTimer, resetTimers,
                   lastEdit, jsonEditor>>
    /\ UNCHANGED benchVars

\* the value prop of the Editor component of the XML panel
XmlEditorValueProp ==
    /\ xmlEditor # xmlValue
    /\ xmlEditor' = xmlValue
    /\ onDidChangeModelContent_xml(FALSE, xmlValue, "sync")
    /\ step' = [op |-> "handleXmlChange", cause |-> "sync"]
    /\ UNCHANGED <<jsonValue, conversionError, activeEditor, isSyncing, jsonTimer, resetTimers,
                   lastEdit, jsonEditor>>
    /\ UNCHANGED benchVars

\* the delay of a debounced call has passed: the callback runs with its argument
JsonTimerFires ==
    /\ jsonTimer.armed
    /\ syncJsonToXml(jsonTimer.arg)
    /\ jsonTimer' = NoTimer
    /\ UNCHANGED <<activeEditor, xmlTimer, lastEdit, jsonEditor, xmlEditor, armedBy>>
    /\ UNCHANGED benchVars

XmlTimerFires ==
    /\ xmlTimer.armed
    /\ syncXmlToJson(xmlTimer.arg)
    /\ xmlTimer' = NoTimer
    /\ UNCHANGED <<activeEditor, jsonTimer, lastEdit, jsonEditor, xmlEditor, armedBy>>
    /\ UNCHANGED benchVars

\* the callback of setTimeout(..., 0), lines 55-57 and 83-85
ResetTimerFires ==
    /\ resetTimers > 0
    /\ isSyncing' = FALSE
    /\ resetTimers' = resetTimers - 1
    /\ step' = [op |-> "setTimeout"]
    /\ UNCHANGED <<jsonValue, xmlValue, conversionError, activeEditor, jsonTimer, xmlTimer,
                   lastEdit, jsonEditor, xmlEditor, armedBy>>
    /\ UNCHANGED benchVars

AppNext ==
    FocusJson \/ FocusXml \/ EditJson \/ EditXml \/ JsonTimerFires \/ XmlTimerFires
    \/ ResetTimerFires
    \/ JsonEditorSetValue \/ JsonEditorValueProp \/ XmlEditorSetValue \/ XmlEditorValueProp

AppSpec == AppInit /\ [][AppNext]_vars

\* a callback handed to setTimeout(..., 0) is run
AppFairSpec == AppSpec /\ WF_vars(ResetTimerFires)

-----------------------------------------------------------------------------
(* Properties of the converter, read on the bench *)

\* the bench has serialised doc and parsed the serializer's output unedited
RoundTripDone == phase = "parsed" /\ edit = "none"

\* a node with an absent content and the node with an empty one are the same
\* Document
RECURSIVE Norm(_)
Norm(n) ==
    IF ~Has(n, "content") THEN n
    ELSE IF n.content = <<>> THEN [key \in DOMAIN n \ {"content"} |-> n[key]]
    ELSE [n EXCEPT !.content = [i \in 1..Len(n.content) |-> Norm(n.content[i])]]

ContentOf(n) == IF Has(n, "content") THEN n.content ELSE <<>>

IsTextNode(n) == Has(n, "type") /\ n.type = S_text

\* a primitive attribute value that is written the way it is read back: a
\* number, a boolean, or a string that reads as neither a number, a boolean,
\* null nor JSON
PlainAttrValue(v) ==
    \/ IsNum(v)
    \/ IsBool(v)
    \/ /\ IsStr(v)
       /\ v.str # <<>>
       /\ ~isWhitespaceOnly(v.str)
       /\ ~IsDigits(Trim(v.str))
       /\ Trim(v.str) \notin {S_true, S_false, S_null}
       /\ Trim(v.str)[1] \notin {"{", "["}

\* a plain node: no marks anywhere, an element type that is neither text, doc
\* nor a mark, plain attribute values, text that is not blank, and no two
\* text nodes side by side
RECURSIVE PlainNode(_)
PlainNode(n) ==
    /\ ~Has(n, "marks")
    /\ IF IsTextNode(n)
       THEN /\ ~Has(n, "attrs") /\ ~Has(n, "content")
            /\ IsStr(n.text) /\ ~isWhitespaceOnly(n.text.str)
       ELSE /\ n.type # S_doc /\ ~isMarkType(n.type)
            /\ \A i \in 1..Len(attrsOf(n)) : PlainAttrValue(attrsOf(n)[i][2])
            /\ \A i \in 1..Len(ContentOf(n)) : PlainNode(ContentOf(n)[i])
            /\ \A i \in 1..(Len(ContentOf(n)) - 1) :
                  ~(IsTextNode(ContentOf(n)[i]) /\ IsTextNode(ContentOf(n)[i + 1]))

\* a Document of plain nodes: elements at the top level
PlainDoc(d) ==
    /\ d.type = S_doc
    /\ ~Has(d, "attrs")
    /\ \A i \in 1..Len(ContentOf(d)) : PlainNode(ContentOf(d)[i]) /\ ~IsTextNode(ContentOf(d)[i])

\* C1: for every Document of plain nodes and unmarked text nodes whose attrs
\* are primitive values, xmlToJson(jsonToXml(doc)) is structurally equal to
\* doc: same types, attrs, text and child order (an empty content counting as
\* an absent one).  Stated here for the well-formed Documents of PlainDoc.
C1_RoundTripIdentity ==
    (RoundTripDone /\ PlainDoc(doc)) => (parsed.ok /\ Norm(parsed.val) = Norm(doc))

\* the Document of one paragraph holding one text node
OneTextDoc(d) ==
    /\ d.type = S_doc /\ ~Has(d, "attrs") /\ Len(ContentOf(d)) = 1
    /\ d.content[1].type = S_p /\ ~Has(d.content[1], "attrs")
    /\ Len(ContentOf(d.content[1])) = 1
    /\ IsTextNode(d.content[1].content[1])

TheText(d) == d.content[1].content[1]

marksOf(n) == IF Has(n, "marks") THEN n.marks ELSE <<>>

\* the opening tags of a mark sequence, first mark first, and the closing
\* tags, first mark last
RECURSIVE OpenTags(_, _)
OpenTags(ms, i) ==
    IF i > Len(ms) THEN <<>>
    ELSE <<"<">> \o ms[i].type \o attrsToXmlString(attrsOf(ms[i])) \o <<">">> \o OpenTags(ms, i + 1)

RECURSIVE CloseTags(_, _)
CloseTags(ms, i) ==
    IF i = 0 THEN <<>> ELSE <<"<", "/">> \o ms[i].type \o <<">">> \o CloseTags(ms, i - 1)

\* C2: for a text node with at least one non-whitespace character and marks
\* [m1, ..., mn], jsonToXml nests the mark elements with m1 outermost and mn
\* innermost around the text, and xmlToJson of that output yields one text
\* node with the same text whose marks are exactly [m1, ..., mn] in that
\* order, each mark keeping its attrs.
C2_MarkOrderRoundTrip ==
    (RoundTripDone /\ OneTextDoc(doc) /\ marksOf(TheText(doc)) # <<>>
        /\ ~isWhitespaceOnly(TheText(doc).text.str))
    => /\ xmlBase = <<"<", "p", ">">>
                    \o OpenTags(TheText(doc).marks, 1)
                    \o escapeXml(TheText(doc).text.str)
                    \o CloseTags(TheText(doc).marks, Len(TheText(doc).marks))
                    \o <<"<", "/", "p", ">">>
       /\ parsed.ok
       /\ OneTextDoc(parsed.val)
       /\ TheText(parsed.val).text = TheText(doc).text
       /\ marksOf(TheText(parsed.val)) = TheText(doc).marks

\* C3: parsing an XML text x and parsing <doc>x</doc> yield the same root
\* content: the doc element never appears as a node, and its children become
\* the root content in order.
C3_DocWrapperSymmetry ==
    (phase = "parsed" /\ edit = "docwrap" /\ parsedBase.ok)
    => /\ parsed.ok
       /\ ContentOf(parsed.val) = ContentOf(parsedBase.val)
       /\ \A i \in 1..Len(ContentOf(parsed.val)) : parsed.val.content[i].type # S_doc

\* the serializations of the children of a node, one after the other with a
\* newline between two
RECURSIVE ChildrenFrom(_, _)
ChildrenFrom(content, i) ==
    IF i > Len(content) THEN <<>>
    ELSE (IF i > 1 THEN <<"\n">> ELSE <<>>) \o nodeToXml(content[i], <<>>)
         \o ChildrenFrom(content, i + 1)

\* the tag a top-level child opens with: its type, or its first mark for a
\* marked text node; an unmarked text node opens none
OpeningTag(n) ==
    IF ~IsTextNode(n) THEN <<n.type>>
    ELSE IF marksOf(n) # <<>> THEN <<n.marks[1].type>> ELSE <<>>

TagsOf(elements) ==
    Flatten([i \in 1..Len(elements) |->
                IF Has(elements[i], "tag") THEN <<elements[i].tag>> ELSE <<>>])

\* C4: jsonToXml never emits an element for the root node: its output is the
\* serializations of the root's children joined by "\n", with no root tag and
\* no root attrs rendered, and it is the empty string when the root's content
\* is absent or empty.
C4_NoRootElement ==
    (phase # "doc" /\ edit = "none")
    => /\ xmlBase = ChildrenFrom(ContentOf(doc), 1)
       /\ (ContentOf(doc) = <<>>) => (xmlBase = <<>>)
       /\ XMLParser_parse(xmlBase).ok
       /\ TagsOf(XMLParser_parse(xmlBase).kids)
            = Flatten([i \in 1..Len(ContentOf(doc)) |-> OpeningTag(doc.content[i])])

\* a root with attrs and children has been serialised
C4_Witness ==
    /\ phase = "xml" /\ edit = "none"
    /\ Has(doc, "attrs") /\ ContentOf(doc) # <<>>
    /\ xmlBase # <<>>

Contains(s, sub) == \E i \in 0..(Len(s) - Len(sub)) : SubSeq(s, i + 1, i + Len(sub)) = sub

IsStructured(v) == IsObj(v) \/ IsArr(v)

\* every & of s starts one of the five entities
WellEscaped(s) ==
    \A i \in 1..Len(s) :
        (s[i] = "&") => \E e \in {E_amp, E_lt, E_gt, E_quot, E_apos} : StartsWith(Drop(s, i - 1), e)

\* one pass of entity decoding, left to right
RECURSIVE Unescape(_)
Unescape(s) ==
    IF s = <<>> THEN <<>>
    ELSE IF StartsWith(s, E_amp) THEN <<"&">> \o Unescape(Drop(s, Len(E_amp)))
    ELSE IF StartsWith(s, E_lt) THEN <<"<">> \o Unescape(Drop(s, Len(E_lt)))
    ELSE IF StartsWith(s, E_gt) THEN <<">">> \o Unescape(Drop(s, Len(E_gt)))
    ELSE IF StartsWith(s, E_quot) THEN <<"\"">> \o Unescape(Drop(s, Len(E_quot)))
    ELSE IF StartsWith(s, E_apos) THEN <<"'">> \o Unescape(Drop(s, Len(E_apos)))
    ELSE <<s[1]>> \o Unescape(Tail(s))

\* the attribute key = value is in the XML text as the JSON encoding of value,
\* escaped for a single-quoted attribute
WrittenAsJson(x, key, value) ==
    /\ Contains(x, <<" ">> \o key \o <<"=", "'">> \o escapeXmlAttr(JsonStringify(value)) \o <<"'">>)
    /\ \A i \in 1..Len(escapeXmlAttr(JsonStringify(value))) :
          escapeXmlAttr(JsonStringify(value))[i] \notin {"'", "<", ">"}
    /\ WellEscaped(escapeXmlAttr(JsonStringify(value)))
    /\ Unescape(escapeXmlAttr(JsonStringify(value))) = JsonStringify(value)

\* the first top-level child is an element of its own: it is read back as the
\* first child
FirstIsElement(d) ==
    /\ ContentOf(d) # <<>>
    /\ ~IsTextNode(d.content[1])
    /\ ~isMarkType(d.content[1].type)
    /\ d.content[1].type # S_doc

\* a text that is read back as text: it has a character that is neither
\* whitespace nor a digit
LiteralText(t) == \E i \in 1..Len(t) : t[i] \notin WhitespaceChars \cup DigitChars

\* C5: for every attr whose value is an object or an array, on a node or on a
\* mark, jsonToXml writes the JSON encoding of the value (escaped for a
\* single-quoted attribute) and xmlToJson of that output reads the attr back
\* as a value structurally equal to the original.
C5_StructuredAttrRoundTrip ==
    RoundTripDone
    => /\ FirstIsElement(doc)
          => \A j \in 1..Len(attrsOf(doc.content[1])) :
                IsStructured(attrsOf(doc.content[1])[j][2])
                => /\ WrittenAsJson(xmlBase, attrsOf(doc.content[1])[j][1],
                                    attrsOf(doc.content[1])[j][2])
                   /\ parsed.ok
                   /\ FirstIsElement(parsed.val)
                   /\ Len(attrsOf(parsed.val.content[1])) = Len(attrsOf(doc.content[1]))
                   /\ attrsOf(parsed.val.content[1])[j] = attrsOf(doc.content[1])[j]
       /\ (OneTextDoc(doc) /\ LiteralText(TheText(doc).text.str))
          => \A m \in 1..Len(marksOf(TheText(doc))) :
                \A j \in 1..Len(attrsOf(TheText(doc).marks[m])) :
                    IsStructured(attrsOf(TheText(doc).marks[m])[j][2])
                    => /\ WrittenAsJson(xmlBase, attrsOf(TheText(doc).marks[m])[j][1],
                                        attrsOf(TheText(doc).marks[m])[j][2])
                       /\ parsed.ok
                       /\ OneTextDoc(parsed.val)
                       /\ Len(marksOf(TheText(parsed.val))) = Len(marksOf(TheText(doc)))
                       /\ attrsOf(TheText(parsed.val).marks[m]) = attrsOf(TheText(doc).marks[m])

\* a structured value whose strings hold a quote of each kind and an
\* ampersand has gone round on a mark, and one has on an element
C5_Witness ==
    /\ RoundTripDone
    /\ OneTextDoc(doc)
    /\ \E m \in 1..Len(marksOf(TheText(doc))) :
          \E j \in 1..Len(attrsOf(TheText(doc).marks[m])) :
              /\ IsStructured(attrsOf(TheText(doc).marks[m])[j][2])
              /\ Contains(JsonStringify(attrsOf(TheText(doc).marks[m])[j][2]), <<"'">>)
              /\ Contains(JsonStringify(attrsOf(TheText(doc).marks[m])[j][2]), <<"&">>)
              /\ attrsOf(TheText(parsed.val).marks[m])[j] = attrsOf(TheText(doc).marks[m])[j]

SpecialChars == {"&", "<", ">", "\"", "'"}

\* what the serializer wrote between the innermost opening tag and the
\* innermost closing tag of a one-text Document
BodyOf(x, d) ==
    SubSeq(x,
           Len(<<"<", "p", ">">> \o OpenTags(marksOf(TheText(d)), 1)) + 1,
           Len(x) - Len(CloseTags(marksOf(TheText(d)), Len(marksOf(TheText(d))))
                        \o <<"<", "/", "p", ">">>))

\* C6: for a text node whose text contains any of & < > " ', jsonToXml writes
\* each as its entity, and xmlToJson of that output yields a text node whose
\* text equals the original exactly: no entity is left undecoded and none is
\* escaped twice.
C6_TextEscapingRoundTrip ==
    (RoundTripDone /\ OneTextDoc(doc)
        /\ \E i \in 1..Len(TheText(doc).text.str) : TheText(doc).text.str[i] \in SpecialChars)
    => /\ StartsWith(xmlBase, <<"<", "p", ">">> \o OpenTags(marksOf(TheText(doc)), 1))
       /\ EndsWith(xmlBase, CloseTags(marksOf(TheText(doc)), Len(marksOf(TheText(doc))))
                            \o <<"<", "/", "p", ">">>)
       /\ \A i \in 1..Len(BodyOf(xmlBase, doc)) :
             BodyOf(xmlBase, doc)[i] \notin SpecialChars \ {"&"}
       /\ WellEscaped(BodyOf(xmlBase, doc))
       /\ Unescape(BodyOf(xmlBase, doc)) = TheText(doc).text.str
       /\ parsed.ok
       /\ parsed.val = doc

\* a text that already reads as an entity, under a mark, has gone round
C6_Witness ==
    /\ RoundTripDone
    /\ OneTextDoc(doc)
    /\ TheText(doc).text.str = E_lt
    /\ marksOf(TheText(doc)) # <<>>
    /\ parsed.ok
    /\ TheText(parsed.val).text = JStr(E_lt)

\* the text nodes of a tree
RECURSIVE TextNodesOf(_)
TextNodesOf(n) ==
    IF IsTextNode(n) THEN {n}
    ELSE UNION {TextNodesOf(ContentOf(n)[i]) : i \in 1..Len(ContentOf(n))}

\* C7: inserting or removing whitespace-only text between elements, at the
\* top level or inside any element, does not change the result of xmlToJson:
\* every whitespace-only run is dropped and never becomes a text node.
C7_WhitespaceInsignificant ==
    (phase = "parsed" /\ edit = "whitespace")
    => /\ parsed = parsedBase
       /\ parsed.ok
          => \A t \in TextNodesOf(parsed.val) : ~isWhitespaceOnly(StringOf(t.text))

\* whitespace was put inside an element, between two of its children's tags,
\* and the parse kept both children and nothing else
C7_Witness ==
    /\ phase = "parsed" /\ edit = "whitespace"
    /\ Len(xml) > Len(xmlBase)
    /\ parsed.ok
    /\ Len(ContentOf(parsed.val)) = 1
    /\ StartsWith(xml, <<"<", "p", ">">>) /\ EndsWith(xml, <<"<", "/", "p", ">">>)
    /\ Len(ContentOf(parsed.val.content[1])) = 2
    /\ \A i \in 1..2 : ~IsTextNode(parsed.val.content[1].content[i])

\* C10: validateJson and validateXml never throw; each returns null exactly
\* when its underlying parse succeeds, and otherwise returns a single error
\* message string.
C10_ValidatorsTotal ==
    (phase = "validated")
    => /\ DOMAIN checked.outcome = {"returns"}
       /\ checked.fn = "validateXml"
          => /\ (checked.outcome.returns = Null) <=> XMLParser_parse(checked.input).ok
             /\ ~XMLParser_parse(checked.input).ok
                => checked.outcome.returns \in {ClosingTagError, OpeningTagError}
       /\ checked.fn = "validateJson"
          => /\ (checked.outcome.returns = Null) <=> JSON_parse(checked.input).ok
             /\ ~JSON_parse(checked.input).ok => checked.outcome.returns = SyntaxErrorMessage

\* a text that JSON.parse rejects has been validated, and got a message
C10_Witness ==
    /\ phase = "validated"
    /\ checked.fn = "validateJson"
    /\ ~JSON_parse(checked.input).ok
    /\ checked.outcome = Returns(SyntaxErrorMessage)

NoWhitespaceIn(t) == \A i \in 1..Len(t) : t[i] \notin WhitespaceChars

\* C11: the newlines and indentation that jsonToXml adds around the children
\* of a node with block content are discarded when the output is parsed back:
\* no text node of xmlToJson(jsonToXml(doc)) contains whitespace that the
\* serializer inserted, also when a node's content mixes text nodes with
\* non-text nodes.  For a Document whose texts hold no whitespace at all,
\* any whitespace in a text of the result is the serializer's.
C11_SerializerWhitespaceDiscarded ==
    (RoundTripDone /\ \A t \in TextNodesOf(doc) : NoWhitespaceIn(t.text.str))
    => /\ parsed.ok
       /\ \A t \in TextNodesOf(parsed.val) : NoWhitespaceIn(StringOf(t.text))

\* the nodes of a tree
RECURSIVE NodesOf(_)
NodesOf(n) == {n} \cup UNION {NodesOf(ContentOf(n)[i]) : i \in 1..Len(ContentOf(n))}

\* C12: in every Document returned by xmlToJson, no node has a type of the
\* mark registry: a mark element only ever contributes a mark, and marks
\* appear only on nodes of type text.
C12_NoMarkTypedNode ==
    (phase = "parsed" /\ parsed.ok)
    => \A n \in NodesOf(parsed.val) :
          /\ n.type \notin MARK_TYPES
          /\ Has(n, "marks")
             => /\ n.type = S_text /\ Has(n, "text")
                /\ n.marks # <<>>
                /\ \A m \in 1..Len(n.marks) : n.marks[m].type \in MARK_TYPES

\* a mark element at the top level that holds text and a regular element has
\* been parsed: the text carries the mark, the element is a node
C12_Witness ==
    /\ phase = "parsed" /\ parsed.ok
    /\ xml = <<"<", "b", "o", "l", "d", ">", "a", "<", "p", ">", "b", "<", "/", "p", ">",
               "<", "/", "b", "o", "l", "d", ">">>
    /\ Len(ContentOf(parsed.val)) = 2
    /\ marksOf(parsed.val.content[1]) = <<[type |-> S_bold]>>
    /\ parsed.val.content[2].type = S_p

\* the children of a parsed element as the XML text has them, in document
\* order: a text run that is not blank, and a regular element; a mark element
\* stands for what it wraps
RECURSIVE ChildItems(_)
ChildItems(elements) ==
    Flatten([i \in 1..Len(elements) |->
        IF Has(elements[i], "text")
        THEN (IF isWhitespaceOnly(StringOf(elements[i].text)) THEN <<>>
              ELSE <<[text |-> StringOf(elements[i].text)]>>)
        ELSE IF elements[i].tag \in MARK_TYPES THEN ChildItems(elements[i].children)
        ELSE <<[type |-> elements[i].tag]>>])

\* the content of a node, in order: the text of a text node, the type of any
\* other node
ContentItems(content) ==
    [i \in 1..Len(content) |->
        IF IsTextNode(content[i]) /\ Has(content[i], "text")
        THEN [text |-> StringOf(content[i].text)]
        ELSE [type |-> content[i].type]]

\* the XML text is one regular element whose children are two or more, a
\* mark element among them
Interleaved(kids) ==
    /\ Len(kids) = 1
    /\ Has(kids[1], "tag")
    /\ kids[1].tag \notin MARK_TYPES \cup {S_doc, <<>>}
    /\ Len(kids[1].children) >= 2
    /\ \E i \in 1..Len(kids[1].children) :
          Has(kids[1].children[i], "tag") /\ kids[1].children[i].tag \in MARK_TYPES

\* C13: when an element's children interleave plain text runs, mark-wrapped
\* text and regular child elements in any order, xmlToJson produces the
\* node's content in exactly the document order of those children: each mark
\* element is replaced in place by the text nodes it expands to, and no child
\* is reordered, merged across a mark boundary, or lost.
C13_InterleavingOrder ==
    (phase = "parsed" /\ XMLParser_parse(xml).ok /\ Interleaved(XMLParser_parse(xml).kids))
    => /\ parsed.ok
       /\ Len(ContentOf(parsed.val)) = 1
       /\ parsed.val.content[1].type = XMLParser_parse(xml).kids[1].tag
       /\ ContentItems(ContentOf(parsed.val.content[1]))
            = ChildItems(XMLParser_parse(xml).kids[1].children)

\* a parsed representation holds an element that is no text run and has no
\* tag name
RECURSIVE HasNoTagElement(_)
HasNoTagElement(elements) ==
    \E i \in 1..Len(elements) :
        IF Has(elements[i], "text") THEN FALSE
        ELSE IF ~Has(elements[i], "tag") THEN TRUE
        ELSE HasNoTagElement(elements[i].children)

\* C14: whenever the parsed representation contains an element that is not a
\* text run and has no discoverable tag name, at the top level, under a
\* regular element or under a mark element, xmlToJson fails with an error
\* instead of returning a Document, and never silently omits the element.
C14_NoTagNameFails ==
    (phase = "converted" /\ HasNoTagElement(checked.input)) => ~checked.outcome.ok

\* the mark tags at the end of a path of tag names, from the root downwards:
\* the wrappers met since the last element that is no mark
MarkChain(path) ==
    LET regular == {i \in 1..Len(path) : path[i] \notin MARK_TYPES}
        last == IF regular = {} THEN 0 ELSE CHOOSE i \in regular : \A j \in regular : j <= i
    IN  SubSeq(path, last + 1, Len(path))

\* the text runs the parser keeps, in document order, each with the mark
\* chain of the path of elements that leads to it
RECURSIVE MarkedRuns(_, _)
MarkedRuns(elements, path) ==
    Flatten([i \in 1..Len(elements) |->
        IF Has(elements[i], "text")
        THEN (IF keepsText(elements[i])
              THEN <<[text |-> elements[i].text, marks |-> MarkChain(path)]>> ELSE <<>>)
        ELSE IF getTagName(elements[i]) = <<>> THEN <<>>
        ELSE MarkedRuns(elements[i].children, Append(path, getTagName(elements[i])))])

\* the text nodes of a content list, in document order, each with the types
\* of its marks
RECURSIVE TextsInOrder(_)
TextsInOrder(content) ==
    Flatten([i \in 1..Len(content) |->
        IF IsTextNode(content[i])
        THEN <<[text |-> content[i].text,
                marks |-> [j \in 1..Len(marksOf(content[i])) |-> marksOf(content[i])[j].type]]>>
        ELSE TextsInOrder(ContentOf(content[i]))])

\* C18: the marks of every text node of the result are exactly the mark
\* wrappers between the text and its nearest enclosing element that is no
\* mark, outermost first: the accumulation starts again at every non-mark
\* element, so marks outside a regular element do not reach the text inside it.
C18_MarkChainResets ==
    (phase = "parsed" /\ parsed.ok)
    => TextsInOrder(ContentOf(parsed.val)) = MarkedRuns(XMLParser_parse(xml).kids, <<>>)

\* <p><bold>a<p><code>b</code>c</p>d</bold></p> has been parsed: a and d
\* carry bold, b carries code alone, c carries nothing
C18_Witness ==
    /\ phase = "parsed" /\ parsed.ok
    /\ xml = <<"<", "p", ">", "<", "b", "o", "l", "d", ">", "a", "<", "p", ">",
               "<", "c", "o", "d", "e", ">", "b", "<", "/", "c", "o", "d", "e", ">", "c",
               "<", "/", "p", ">", "d", "<", "/", "b", "o", "l", "d", ">", "<", "/", "p", ">">>
    /\ TextsInOrder(ContentOf(parsed.val))
         = <<[text |-> JStr(<<"a">>), marks |-> <<S_bold>>],
             [text |-> JStr(<<"b">>), marks |-> <<S_code>>],
             [text |-> JStr(<<"c">>), marks |-> <<>>],
             [text |-> JStr(<<"d">>), marks |-> <<S_bold>>]>>

-----------------------------------------------------------------------------
(* Properties of the two panels *)

FailedOutcomes == {"invalid", "threw"}

\* C8: a sync attempt that fails, because the source text fails validation
\* or because the conversion throws, leaves the destination panel's text
\* exactly as it was before the attempt.
C8_FailedSyncKeepsDestination ==
    [][/\ (step'.op = "syncJsonToXml" /\ step'.outcome \in FailedOutcomes)
          => xmlValue' = xmlValue
       /\ (step'.op = "syncXmlToJson" /\ step'.outcome \in FailedOutcomes)
          => jsonValue' = jsonValue]_vars

\* a conversion has thrown while the XML panel held text
C8_Witness ==
    /\ step.op = "syncJsonToXml"
    /\ step.outcome = "threw"
    /\ xmlValue # <<>>
    /\ conversionError = TypeErrorMessage

\* no debounced call is waiting, no reset is pending and both editors show
\* their values: nothing more happens
\* unless the user acts
Quiescent ==
    /\ ~jsonTimer.armed /\ ~xmlTimer.armed /\ resetTimers = 0
    /\ jsonEditor = jsonValue /\ xmlEditor = xmlValue

\* C9: after any user edit to one panel that leaves its text valid and
\* convertible, the other panel eventually holds the conversion of that text
\* once the user stops editing, under every interleaving of edits, debounce
\* firings, focus changes and resets of the sync flag.  When nothing is
\* pending any more the conversion must be there: no later step brings it.
C9_EditEventuallySynced ==
    /\ (Quiescent /\ lastEdit.panel = "json" /\ lastEdit.text.ok
           /\ Has(convertJson(lastEdit.text), "returns"))
       => xmlValue = convertJson(lastEdit.text).returns
    /\ (Quiescent /\ lastEdit.panel = "xml" /\ XMLParser_parse(lastEdit.text).ok)
       => jsonValue = convertXml(XMLParser_parse(lastEdit.text)).returns

\* a sync that got past its guard and the validator: the conversion was run
ConversionOutcomes == {"synced", "threw"}

\* C15: syncs never recurse.  A conversion is only ever run for a text the
\* user put into the source panel: the text a sync wrote into a panel never
\* arms the debounced call whose conversion goes back the other way.
C15_SyncsNeverRecurse ==
    /\ (step.op = "syncJsonToXml" /\ step.outcome \in ConversionOutcomes)
       => armedBy.json = "user"
    /\ (step.op = "syncXmlToJson" /\ step.outcome \in ConversionOutcomes)
       => armedBy.xml = "user"

\* C16: a conversion overwrites a panel's text only when the other panel is
\* the active editor at the moment the debounced sync runs: every step that
\* changes xmlValue is the XML panel's own change handler or a syncJsonToXml
\* run while the active editor is "json", every step that changes jsonValue
\* is the JSON panel's own change handler or a syncXmlToJson run while the
\* active editor is "xml", and no conversion is run while no editor has been
\* focused.
C16_OverwriteOnlyFromActiveEditor ==
    [][/\ xmlValue' # xmlValue
          => \/ step'.op = "handleXmlChange"
             \/ step'.op = "syncJsonToXml" /\ activeEditor = "json"
       /\ jsonValue' # jsonValue
          => \/ step'.op = "handleJsonChange"
             \/ step'.op = "syncXmlToJson" /\ activeEditor = "xml"
       /\ (step'.op = "syncJsonToXml" /\ step'.outcome \in ConversionOutcomes)
          => activeEditor = "json"
       /\ (step'.op = "syncXmlToJson" /\ step'.outcome \in ConversionOutcomes)
          => activeEditor = "xml"]_vars

\* syncXmlToJson has replaced the JSON panel's text while the XML editor was
\* the active one
C16_Witness ==
    /\ step.op = "syncXmlToJson"
    /\ step.outcome = "synced"
    /\ activeEditor = "xml"
    /\ jsonValue # jsonEditor
    /\ jsonValue = convertXml(XMLParser_parse(lastEdit.text)).returns

\* C17: isSyncing becomes true only in a sync that got past the active-editor
\* guard and the validator, never in one that returned early; and whenever
\* it is true, after a conversion that succeeded as after one that threw, the
\* deferred timer eventually sets it back to false.
C17_SyncFlagSetAndReset ==
    /\ [][(isSyncing' /\ ~isSyncing)
            => /\ step'.op \in {"syncJsonToXml", "syncXmlToJson"}
               /\ step'.outcome \in ConversionOutcomes]_vars
    /\ [][(step'.op \in {"syncJsonToXml", "syncXmlToJson"}
             /\ step'.outcome \in {"skipped", "invalid"})
            => isSyncing' = isSyncing]_vars
    /\ (isSyncing ~> ~isSyncing)

\* the flag is set after a conversion that threw, and its reset is pending
C17_Witness ==
    /\ isSyncing
    /\ step.op = "syncJsonToXml"
    /\ step.outcome = "threw"
    /\ resetTimers = 1

====
